---- MODULE Spec2Model ----
(***************************************************************************)
(* Model of the Vertex AI RAG client glue:                                 *)
(*   pipeline/rag_query.py            query_rag_corpus and its helper      *)
(*   pipeline/vertexai_rag_pipeline.py module load and run_pipeline        *)
(* The process is single-threaded: one entry point runs at a time, and pc  *)
(* is the position of the running one.  The managed backend (vertexai.init,*)
(* rag.list_corpora, rag.retrieve, rag.create_corpus, rag.import_files) is *)
(* the environment: every remote call either returns a value drawn from a  *)
(* small set or raises one of RemoteErrors.                                *)
(* Python strings that the code inspects are sequences of one-character    *)
(* strings, so that startswith and == are computed, not assumed.           *)
(***************************************************************************)
EXTENDS Integers, Sequences, FiniteSets, TLC

\* ------------------------------------------------------------------ bounds
MaxCtx == 3        \* longest backend response (contexts) explored
MaxCorpora == 2    \* longest corpus listing explored

\* ------------------------------------------------------- program constants
Initial == 1       \* RAG_RETRY initial=1.0
Maximum == 10      \* RAG_RETRY maximum=10.0
Multiplier == 2    \* RAG_RETRY multiplier=2.0
Deadline == 120    \* RAG_RETRY deadline=120.0
DefaultTopK == 5   \* query_rag_corpus(top_k: int = 5)

\* ---------------------------------------------------------------- strings
Prefix == <<"p","r","o","j","e","c","t","s","/">>          \* "projects/"
None == <<"None">>                                         \* Python None: no string equals it
EmptyStr == <<>>                                           \* ""
Docs == <<"D","o","c","s">>                                \* "Docs"
docsLower == <<"d","o","c","s">>                           \* "docs"
ProjectsNoSlash == SubSeq(Prefix, 1, 8)                    \* "projects"
ResA == Prefix \o <<"a">>                                  \* "projects/a"
ResB == Prefix \o <<"b">>                                  \* "projects/b"
ResC == Prefix \o <<"c">>                                  \* "projects/c"

PROJECT_ID == "your-gcp-project-id"
LOCATION == "us-central1"
CORPUS_DISPLAY_NAME == <<"M","y">>                         \* "MyVertexRagCorpus", shortened
GCS_PATHS == <<"gs://bucketname/file1.pdf", "gs://bucketname/file2.txt">>

\* slip: the reference is compared with the prefix as a whole
StartsWithWhole(s, p) == s = p

\* str.startswith
StartsWith(s, p) == Len(s) >= Len(p) /\ SubSeq(s, 1, Len(p)) = p

\* ----------------------------------------------------------------- errors
NoError == [type |-> "NoError", msg |-> "", arg |-> <<>>]
\* raise ValueError("corpus_name must be provided")
MissingCorpusError == [type |-> "ValueError", msg |-> "corpus_name must be provided", arg |-> <<>>]
\* raise ValueError(f"RAG corpus with display name '{display_name}' not found")
CorpusNotFoundError(display_name) ==
    [type |-> "ValueError", msg |-> "RAG corpus with display name not found", arg |-> display_name]
\* what a remote call of the backend may raise
RemoteErrors ==
    { [type |-> "ServiceUnavailable", msg |-> "503 backend unavailable", arg |-> <<>>],
      [type |-> "PermissionDenied", msg |-> "403 permission denied", arg |-> <<>>] }
\* what vertexai.init may raise
InitError(already) ==
    [type |-> "RuntimeError",
     msg |-> IF already THEN "already initialized" ELSE "init failed", arg |-> <<>>]
\* google.api_core.exceptions.RetryError, raised by the wrapper when the deadline is exceeded
RetryError(cause) ==
    [type |-> "RetryError", msg |-> "Timeout of 120.0s exceeded", arg |-> <<cause.type>>]

\* ------------------------------------------------------------ backend data
Min(a, b) == IF a <= b THEN a ELSE b
SeqsUpTo(S, n) == UNION { [1..k -> S] : k \in 0..n }

\* corpora the backend may list: two share the display name "Docs", and one
\* carries a display name that itself looks like a resource path
Corpora ==
    { [name |-> ResA, display_name |-> Docs],
      [name |-> ResB, display_name |-> Docs],
      [name |-> ResC, display_name |-> ResA] }
Listings == SeqsUpTo(Corpora, MaxCorpora)
NoCorpus == [name |-> <<>>, display_name |-> <<>>]

\* contexts of a retrieval response; score is in tenths
Contexts ==
    { [text |-> "alpha", source_uri |-> "gs://bucketname/file1.pdf",
       source_display_name |-> "file1.pdf", score |-> 9],
      [text |-> "beta", source_uri |-> "gs://bucketname/file2.txt",
       source_display_name |-> "file2.txt", score |-> 5] }
Responses == SeqsUpTo(Contexts, MaxCtx)

\* arguments the callers pass
Queries == {"What is X?", "What is Y?"}
CorpusRefs == {None, EmptyStr, Docs, docsLower, ProjectsNoSlash, Prefix, ResA, ResC}
TopKs == {1, 2, DefaultTopK}
NoRequest == [corpus_name |-> <<>>, query |-> "", top_k |-> 0]

\* import_files response counters
ImportSummaries ==
    { [imported_rag_files_count |-> i, skipped_rag_files_count |-> Len(GCS_PATHS) - i] :
        i \in 0..Len(GCS_PATHS) }
NoSummary == [imported_rag_files_count |-> 0 - 1, skipped_rag_files_count |-> 0 - 1]

VARIABLES
    pc,            \* position of the running entry point, "idle" between calls
    initialized,   \* process-wide vertexai session context
    module_state,  \* vertexai_rag_pipeline: "unloaded", "loaded" or "failed"
    query,         \* query_rag_corpus argument
    corpus_ref,    \* query_rag_corpus argument corpus_name as the caller passed it
    corpus_name,   \* the local corpus_name, rebound by the resolution
    top_k,         \* query_rag_corpus argument
    warned,        \* logger.warning("Vertex AI may already be initialized") was issued
    listing,       \* what rag.list_corpora returned in this call
    request,       \* the last request handed to rag.retrieve
    response,      \* response.contexts of the last successful rag.retrieve
    results,       \* the list query_rag_corpus returns
    corpus,        \* run_pipeline local: the corpus rag.create_corpus returned
    import_target, \* corpus name handed to rag.import_files
    summary,       \* response of rag.import_files
    logged,        \* the error logger.exception recorded in run_pipeline
    n_list,        \* calls of rag.list_corpora in this call
    n_retrieve,    \* calls of rag.retrieve in this call
    n_create,      \* calls of rag.create_corpus in this run
    n_import,      \* calls of rag.import_files in this run
    delay,         \* RAG_RETRY: the sleep the generator yielded for this attempt
    elapsed,       \* RAG_RETRY: seconds slept since the wrapper was entered
    last_exc,      \* the exception the wrapped target raised at its last attempt
    status,        \* "none", "running", "returned" or "raised"
    error          \* the exception the caller receives

vars == << pc, initialized, module_state, query, corpus_ref, corpus_name, top_k,
           warned, listing, request, response, results, corpus, import_target,
           summary, logged, n_list, n_retrieve, n_create, n_import, delay, elapsed,
           last_exc, status, error >>

queryLocals == << query, corpus_ref, corpus_name, top_k, warned, listing, request,
                  response, results, n_list, n_retrieve >>
pipelineLocals == << corpus, import_target, summary, logged, n_create, n_import >>
retryState == << delay, elapsed, last_exc >>

\* locals of a frame that is not running
BlankQuery ==
    /\ query' = "" /\ corpus_ref' = None /\ corpus_name' = None /\ top_k' = 0
    /\ warned' = FALSE /\ listing' = <<>> /\ request' = NoRequest
    /\ response' = <<>> /\ results' = <<>> /\ n_list' = 0 /\ n_retrieve' = 0
BlankPipeline ==
    /\ corpus' = NoCorpus /\ import_target' = <<>> /\ summary' = NoSummary
    /\ logged' = NoError /\ n_create' = 0 /\ n_import' = 0
BlankRetry ==
    /\ delay' = 0 /\ elapsed' = 0 /\ last_exc' = NoError

Init ==
    /\ pc = "idle" /\ initialized = FALSE /\ module_state = "unloaded"
    /\ query = "" /\ corpus_ref = None /\ corpus_name = None /\ top_k = 0
    /\ warned = FALSE /\ listing = <<>> /\ request = NoRequest
    /\ response = <<>> /\ results = <<>> /\ n_list = 0 /\ n_retrieve = 0
    /\ corpus = NoCorpus /\ import_target = <<>> /\ summary = NoSummary
    /\ logged = NoError /\ n_create = 0 /\ n_import = 0
    /\ delay = 0 /\ elapsed = 0 /\ last_exc = NoError
    /\ status = "none" /\ error = NoError

\* -------------------------------------------------------------- RAG_RETRY
\* predicate=retry.if_exception_type(): called with no exception types, so
\* isinstance(exc, ()) holds of no exception
RetryableTypes == {}
\* slip: a predicate that accepts every exception
PredicateAny(exc) == TRUE
Predicate(exc) == exc.type \in RetryableTypes

\* entering RAG_RETRY(target)(...): the sleep generator starts at min(initial, maximum)
RetryBegin ==
    /\ delay' = Min(Initial, Maximum) /\ elapsed' = 0 /\ last_exc' = NoError

\* the wrapper's handling of an exception of the target: re-raise it when the
\* predicate rejects it, raise RetryError when the next sleep would pass the
\* deadline, otherwise sleep and call the target again
RetryVerdict(exc) ==
    IF ~Predicate(exc) THEN [raise |-> TRUE, err |-> exc]
    ELSE IF elapsed + delay > Deadline THEN [raise |-> TRUE, err |-> RetryError(exc)]
    ELSE [raise |-> FALSE, err |-> NoError]

\* time.sleep(delay); the next delay is multiplied, up to maximum (the sleep is
\* taken at the generator's upper bound, without the library's random jitter)
RetrySleep ==
    /\ elapsed' = elapsed + delay
    /\ delay' = Min(delay * Multiplier, Maximum)

\* ----------------------------------------------------------- vertexai.init
VertexaiInit(raises) ==
    [initialized |-> initialized \/ ~raises,
     exc |-> IF raises THEN InitError(initialized) ELSE NoError]

\* ------------------------------------------------- rag_query.py: helpers
\* slip: the scan keeps the last match instead of returning at the first
RECURSIVE ScanCorporaLast(_, _, _)
ScanCorporaLast(corpora, display_name, i) ==
    IF i > Len(corpora) THEN [found |-> FALSE, name |-> None]
    ELSE LET rest == ScanCorporaLast(corpora, display_name, i + 1) IN
         IF rest.found THEN rest
         ELSE IF corpora[i].display_name = display_name
              THEN [found |-> TRUE, name |-> corpora[i].name]
              ELSE rest

\* for corpus in corpora: if corpus.display_name == display_name: return corpus.name
RECURSIVE ScanCorpora(_, _, _)
ScanCorpora(corpora, display_name, i) ==
    IF i > Len(corpora) THEN [found |-> FALSE, name |-> None]
    ELSE IF corpora[i].display_name = display_name
         THEN [found |-> TRUE, name |-> corpora[i].name]
         ELSE ScanCorpora(corpora, display_name, i + 1)

\* slip: an unmatched display name is handed back as if it were a resource name
get_corpus_or_input(corpora, display_name) ==
    LET r == ScanCorpora(corpora, display_name, 1) IN
    IF r.found THEN r ELSE [found |-> TRUE, name |-> display_name]

get_corpus_by_display_name(corpora, display_name) ==
    ScanCorpora(corpora, display_name, 1)

\* rag.RagRetrievalConfig(top_k=top_k)
RagRetrievalConfig(k) == [top_k |-> k]

\* slip: the display name of the source is copied in place of its URI
ToPassageDisplayName(ctx) ==
    [text |-> ctx.text, source_uri |-> ctx.source_display_name, score |-> ctx.score]

\* {"text": ctx.text, "source_uri": ctx.source_uri, "score": ctx.score}
ToPassage(ctx) == [text |-> ctx.text, source_uri |-> ctx.source_uri, score |-> ctx.score]

\* slip: results.insert(0, ...) in place of results.append(...)
MapContextsReversed(contexts) ==
    [i \in 1..Len(contexts) |-> ToPassage(contexts[Len(contexts) + 1 - i])]

\* results = []; for ctx in response.contexts: results.append({...})
MapContexts(contexts) == [i \in 1..Len(contexts) |-> ToPassage(contexts[i])]

\* ---------------------------------------------- rag_query.query_rag_corpus
\* the call: the arguments are bound
QueryRagCorpus ==
    /\ pc = "idle"
    /\ \E q \in Queries, c \in CorpusRefs, k \in TopKs :
         /\ query' = q /\ corpus_ref' = c /\ corpus_name' = c /\ top_k' = k
    /\ pc' = "q_init" /\ status' = "running"
    /\ UNCHANGED << initialized, module_state, warned, listing, request, response,
                    results, n_list, n_retrieve, pipelineLocals, retryState, error >>

\* try: vertexai.init(...) except Exception as e: logger.warning(...)
QueryInit ==
    /\ pc = "q_init"
    /\ \E raises \in BOOLEAN :
         /\ initialized' = VertexaiInit(raises).initialized
         /\ warned' = raises
    /\ pc' = "q_check"
    /\ UNCHANGED << module_state, query, corpus_ref, corpus_name, top_k, listing,
                    request, response, results, n_list, n_retrieve, pipelineLocals,
                    retryState, status, error >>

\* slip: the None check is missing, the unset reference goes to the resolution
QueryCheckNoNone ==
    /\ pc = "q_check"
    /\ IF ~StartsWith(corpus_name, Prefix)
       THEN /\ pc' = "q_resolve"
            /\ UNCHANGED << status, error, retryState >>
       ELSE /\ pc' = "q_retrieve" /\ RetryBegin
            /\ UNCHANGED << status, error >>
    /\ UNCHANGED << initialized, module_state, queryLocals, pipelineLocals >>

\* if corpus_name is None: raise; if not corpus_name.startswith("projects/"): resolve
QueryCheck ==
    /\ pc = "q_check"
    /\ IF corpus_name = None
       THEN /\ pc' = "q_done" /\ status' = "raised" /\ error' = MissingCorpusError
            /\ UNCHANGED retryState
       ELSE IF ~StartsWith(corpus_name, Prefix)
       THEN /\ pc' = "q_resolve"
            /\ UNCHANGED << status, error, retryState >>
       ELSE /\ pc' = "q_retrieve" /\ RetryBegin
            /\ UNCHANGED << status, error >>
    /\ UNCHANGED << initialized, module_state, queryLocals, pipelineLocals >>

\* corpus_name = get_corpus_by_display_name(corpus_name): one rag.list_corpora()
\* call, which returns a listing or raises, then the scan
QueryResolve ==
    /\ pc = "q_resolve"
    /\ n_list' = n_list + 1
    /\ \E exc \in RemoteErrors \cup {NoError}, corpora \in Listings :
         IF exc # NoError
         THEN /\ pc' = "q_done" /\ status' = "raised" /\ error' = exc
              /\ UNCHANGED << listing, corpus_name, retryState >>
         ELSE LET r == get_corpus_by_display_name(corpora, corpus_name) IN
              /\ listing' = corpora
              /\ IF r.found
                 THEN /\ corpus_name' = r.name
                      /\ pc' = "q_retrieve" /\ RetryBegin
                      /\ UNCHANGED << status, error >>
                 ELSE /\ pc' = "q_done" /\ status' = "raised"
                      /\ error' = CorpusNotFoundError(corpus_name)
                      /\ UNCHANGED << corpus_name, retryState >>
    /\ UNCHANGED << initialized, module_state, query, corpus_ref, top_k, warned,
                    request, response, results, n_retrieve, pipelineLocals >>

\* response = RAG_RETRY(rag.retrieve)(corpus_name=..., query=..., retrieval_config=...)
\* one attempt of the wrapped target, then the mapping of the contexts and the return
QueryRetrieve ==
    /\ pc = "q_retrieve"
    /\ n_retrieve' = n_retrieve + 1
    /\ request' = [corpus_name |-> corpus_name, query |-> query,
                   top_k |-> RagRetrievalConfig(top_k).top_k]
    /\ \E exc \in RemoteErrors \cup {NoError}, contexts \in Responses :
         IF exc = NoError
         THEN /\ response' = contexts
              /\ results' = MapContexts(contexts)
              /\ pc' = "q_done" /\ status' = "returned"
              /\ UNCHANGED << retryState, error >>
         ELSE LET v == RetryVerdict(exc) IN
              /\ last_exc' = exc
              /\ IF v.raise
                 THEN /\ pc' = "q_done" /\ status' = "raised" /\ error' = v.err
                      /\ UNCHANGED << delay, elapsed >>
                 ELSE /\ pc' = "q_retrieve" /\ RetrySleep
                      /\ UNCHANGED << status, error >>
              /\ UNCHANGED << response, results >>
    /\ UNCHANGED << initialized, module_state, query, corpus_ref, corpus_name, top_k,
                    warned, listing, n_list, pipelineLocals >>

\* ------------------------------------- vertexai_rag_pipeline.py: module load
\* module level: vertexai.init(project=PROJECT_ID, location=LOCATION), outside any
\* try; an exception aborts the import of the module and run_pipeline is never defined
ModuleLoad ==
    /\ pc = "idle" /\ module_state = "unloaded"
    /\ \E raises \in BOOLEAN :
         LET r == VertexaiInit(raises) IN
         /\ initialized' = r.initialized
         /\ error' = r.exc
         /\ IF raises
            THEN module_state' = "failed" /\ status' = "raised"
            ELSE module_state' = "loaded" /\ status' = "returned"
    /\ pc' = "m_done"
    /\ UNCHANGED << queryLocals, pipelineLocals, retryState >>

\* names the backend may assign to a created corpus
ResourceNames == {ResA, ResB, ResC}

\* slip: the display name is handed to the import in place of corpus.name
ImportTargetDisplayName(c) == c.display_name

\* import_to_rag_corpus(corpus.name, GCS_PATHS)
ImportTarget(c) == c.name

\* run_pipeline(): entering the try block
RunPipeline ==
    /\ pc = "idle" /\ module_state = "loaded"
    /\ pc' = "p_create" /\ status' = "running" /\ RetryBegin
    /\ UNCHANGED << initialized, module_state, queryLocals, pipelineLocals, error >>

\* corpus = create_rag_corpus(CORPUS_DISPLAY_NAME): one attempt of
\* RAG_RETRY(rag.create_corpus)(display_name=..., backend_config=...)
PipelineCreate ==
    /\ pc = "p_create"
    /\ n_create' = n_create + 1
    /\ \E exc \in RemoteErrors \cup {NoError}, name \in ResourceNames :
         IF exc = NoError
         THEN /\ corpus' = [name |-> name, display_name |-> CORPUS_DISPLAY_NAME]
              /\ pc' = "p_sleep"
              /\ UNCHANGED << retryState, error >>
         ELSE LET v == RetryVerdict(exc) IN
              /\ last_exc' = exc
              /\ IF v.raise
                 THEN /\ pc' = "p_except" /\ error' = v.err
                      /\ UNCHANGED << delay, elapsed >>
                 ELSE /\ pc' = "p_create" /\ RetrySleep
                      /\ UNCHANGED error
              /\ UNCHANGED corpus
    /\ UNCHANGED << initialized, module_state, queryLocals, import_target, summary,
                    logged, n_import, status >>

\* time.sleep(4), then import_to_rag_corpus is entered
PipelineSleep ==
    /\ pc = "p_sleep"
    /\ pc' = "p_import" /\ RetryBegin
    /\ UNCHANGED << initialized, module_state, queryLocals, pipelineLocals, status, error >>

\* import_to_rag_corpus(corpus.name, GCS_PATHS): one attempt of
\* RAG_RETRY(rag.import_files)(corpus_name, paths, transformation_config=...)
PipelineImport ==
    /\ pc = "p_import"
    /\ n_import' = n_import + 1
    /\ import_target' = ImportTarget(corpus)
    /\ \E exc \in RemoteErrors \cup {NoError}, sm \in ImportSummaries :
         IF exc = NoError
         THEN /\ summary' = sm
              /\ pc' = "p_done" /\ status' = "returned"
              /\ UNCHANGED << retryState, error >>
         ELSE LET v == RetryVerdict(exc) IN
              /\ last_exc' = exc
              /\ IF v.raise
                 THEN /\ pc' = "p_except" /\ error' = v.err
                      /\ UNCHANGED << delay, elapsed >>
                 ELSE /\ pc' = "p_import" /\ RetrySleep
                      /\ UNCHANGED error
              /\ UNCHANGED << summary, status >>
    /\ UNCHANGED << initialized, module_state, queryLocals, corpus, logged, n_create >>

\* except Exception as error: logger.exception(error); raise
PipelineExcept ==
    /\ pc = "p_except"
    /\ logged' = error
    /\ pc' = "p_done" /\ status' = "raised"
    /\ UNCHANGED << initialized, module_state, queryLocals, corpus, import_target,
                    summary, n_create, n_import, retryState, error >>

\* the running entry point hands its result or its exception to the caller;
\* its locals are gone
Return ==
    /\ pc \in {"q_done", "p_done", "m_done"}
    /\ pc' = "idle" /\ status' = "none" /\ error' = NoError
    /\ BlankQuery /\ BlankPipeline /\ BlankRetry
    /\ UNCHANGED << initialized, module_state >>

Next ==
    \/ QueryRagCorpus \/ QueryInit \/ QueryCheck \/ QueryResolve \/ QueryRetrieve
    \/ ModuleLoad \/ RunPipeline \/ PipelineCreate \/ PipelineSleep \/ PipelineImport
    \/ PipelineExcept \/ Return

Spec == Init /\ [][Next]_vars

\* a call that has started keeps running: the calls are synchronous and blocking,
\* only the start of a call is up to the caller
Progress ==
    \/ QueryInit \/ QueryCheck \/ QueryResolve \/ QueryRetrieve
    \/ PipelineCreate \/ PipelineSleep \/ PipelineImport \/ PipelineExcept \/ Return

FairSpec == Spec /\ WF_vars(Progress)

\* ===================================================================
\* Properties
\* ===================================================================
\* helpers of the properties, stated without the operators of the model
IsFullyQualified(s) == Len(s) >= Len(Prefix) /\ \A i \in 1..Len(Prefix) : s[i] = Prefix[i]
ListedNames(L) == { L[i].name : i \in 1..Len(L) }
Matches(L, d) == { i \in 1..Len(L) : L[i].display_name = d }
Descending(seq) == \A i, j \in 1..Len(seq) : i < j => seq[i].score >= seq[j].score
NotFoundMsg == "RAG corpus with display name not found"
\* the failure of a wrapped operation has left the wrapper
WrappedFailureSurfaced ==
    /\ last_exc # NoError
    /\ pc = "p_except" \/ (pc \in {"q_done", "p_done"} /\ status = "raised")
ListingFailed == status = "raised" /\ error \in RemoteErrors /\ n_retrieve = 0

\* C1: a retrieval request is submitted only once the corpus reference is bound
\* to one resource name, the caller's fully-qualified input or a name the listing
\* returned; an unresolved display name ends the call in an error with no
\* retrieval request, and the listing is asked at most once.
C1_BoundBeforeRetrieve ==
    /\ n_list <= 1
    /\ n_retrieve > 0 =>
         /\ request.corpus_name = corpus_name
         /\ \/ IsFullyQualified(corpus_ref) /\ corpus_name = corpus_ref /\ n_list = 0
            \/ ~IsFullyQualified(corpus_ref) /\ n_list = 1
                 /\ corpus_name \in ListedNames(listing)
    /\ (n_list = 1 /\ Matches(listing, corpus_ref) = {}) =>
         pc = "q_done" /\ status = "raised" /\ n_retrieve = 0 /\ request = NoRequest

C1_Witness ==
    /\ pc = "q_done" /\ status = "returned" /\ corpus_ref = Docs
    /\ n_list = 1 /\ n_retrieve = 1 /\ request.corpus_name \in ListedNames(listing)

\* C2: a failure of a RAG_RETRY-wrapped operation reaches the caller only once
\* the retries have used up the 120 s deadline (every earlier failure is
\* followed by a sleep and another attempt).
C2_RetriedUntilDeadline ==
    WrappedFailureSurfaced => elapsed + Maximum > Deadline

\* C3: a wrapped operation that keeps failing ends the call, and the error the
\* caller receives is the error the operation raised at its last attempt, not a
\* timeout or retry-exhausted error put in its place.
C3_TerminatesWithFinalError ==
    /\ [](WrappedFailureSurfaced => error = last_exc /\ error.type # "RetryError")
    /\ [](pc \in {"q_retrieve", "p_create", "p_import"} => <>(pc \in {"q_done", "p_done"}))

C3_Witness ==
    /\ pc = "q_done" /\ status = "raised" /\ n_retrieve >= 1
    /\ error \in RemoteErrors /\ error = last_exc

\* C4: a corpus reference that starts with "projects/" is the corpus name of the
\* retrieval request, unchanged, and no corpus listing call is made.
C4_QualifiedPassThrough ==
    IsFullyQualified(corpus_ref) =>
        /\ n_list = 0 /\ listing = <<>>
        /\ corpus_name = corpus_ref
        /\ pc \notin {"q_init", "q_check"} => pc \in {"q_retrieve", "q_done"}
        /\ n_retrieve > 0 => request.corpus_name = corpus_ref

C4_Witness ==
    /\ pc = "q_done" /\ status = "returned" /\ corpus_ref = ResA
    /\ \E c \in Corpora : c.display_name = corpus_ref /\ c.name # corpus_ref
    /\ n_list = 0 /\ request.corpus_name = ResA

\* C5: for a display name d and a listing L, the resolution yields the name of
\* the first corpus of L whose display name is d, and raises the not-found error
\* exactly when L holds no corpus with display name d.
C5_FirstMatch ==
    (n_list = 1 /\ ~ListingFailed) =>
        LET M == Matches(listing, corpus_ref) IN
        IF M = {}
        THEN status = "raised" /\ error.type = "ValueError" /\ error.msg = NotFoundMsg
             /\ error.arg = corpus_ref
        ELSE /\ \E i \in M : (\A j \in M : i <= j) /\ corpus_name = listing[i].name
             /\ error.msg # NotFoundMsg

C5_Witness ==
    /\ pc = "q_retrieve" /\ corpus_ref = Docs /\ Len(listing) = 2
    /\ listing[1].display_name = Docs /\ listing[2].display_name = Docs
    /\ listing[1].name # listing[2].name /\ corpus_name = listing[1].name

\* C6 as stated: a call with top_k = k returns at most k passages in descending
\* score order, for every response of the backend.
C6_AtMostKDescending ==
    (pc = "q_done" /\ status = "returned") =>
        Len(results) <= top_k /\ Descending(results)

\* C6 amended: the request carries k as its bound, and the result has at most k
\* passages in descending score order exactly when the response of the backend
\* has: the code neither truncates nor sorts.
C6_BoundedWhenResponseIs ==
    (pc = "q_done" /\ status = "returned") =>
        /\ request.top_k = top_k
        /\ (Len(results) <= top_k /\ Descending(results))
             <=> (Len(response) <= top_k /\ Descending(response))

C6_Witness ==
    /\ pc = "q_done" /\ status = "returned" /\ top_k = 2 /\ request.top_k = 2
    /\ Len(response) = 2 /\ response[1].score > response[2].score
    /\ Len(results) = 2 /\ results[1].score > results[2].score

\* C7: the result of a successful call has one entry per context of the response
\* of this call, the i-th entry carrying the text, source URI and score of the
\* i-th context and nothing else.
C7_Passthrough ==
    (pc = "q_done" /\ status = "returned") =>
        /\ Len(results) = Len(response)
        /\ \A i \in 1..Len(response) :
             /\ DOMAIN results[i] = {"text", "source_uri", "score"}
             /\ results[i].text = response[i].text
             /\ results[i].source_uri = response[i].source_uri
             /\ results[i].score = response[i].score

C7_Witness ==
    /\ pc = "q_done" /\ status = "returned" /\ Len(response) = 3
    /\ response[1] = response[3] /\ response[1] # response[2]
    /\ response[1].score < response[2].score
    /\ Len(results) = 3 /\ results[2].text = response[2].text

\* C8 as stated: a call with the corpus reference unset fails with an error of a
\* kind other than the kind raised for an unmatched display name, and makes
\* neither a listing call nor a retrieval request.
C8_DistinctErrorKind ==
    (pc = "q_done" /\ corpus_ref = None) =>
        /\ status = "raised"
        /\ error.type # CorpusNotFoundError(EmptyStr).type
        /\ n_list = 0 /\ n_retrieve = 0

\* C8 amended: a call with the corpus reference unset fails with ValueError
\* "corpus_name must be provided", the exception type of the not-found error,
\* told apart from it by the message only, and makes neither a listing call nor
\* a retrieval request.
C8_UnsetIsValueError ==
    (pc = "q_done" /\ corpus_ref = None) =>
        /\ status = "raised"
        /\ error.type = "ValueError" /\ error.msg = "corpus_name must be provided"
        /\ error.type = CorpusNotFoundError(EmptyStr).type
        /\ error.msg # NotFoundMsg
        /\ n_list = 0 /\ n_retrieve = 0 /\ request = NoRequest

C8_Witness ==
    /\ pc = "q_done" /\ corpus_ref = None /\ status = "raised"
    /\ error = MissingCorpusError /\ n_list = 0 /\ n_retrieve = 0

\* C9: in both entry points a session initialization that raises because the
\* session is already initialized is not fatal: the query goes on to its checks
\* and the pipeline module is loaded.
C9_InitNeverFatal ==
    /\ (pc = "q_check" /\ warned) => status = "running"
    /\ (pc = "m_done" /\ error.msg = "already initialized") =>
         module_state = "loaded" /\ status = "returned"

\* C10: in run_pipeline the import is requested only after the creation
\* returned a corpus and targets the name of that corpus; a failed creation
\* leaves no import request; a failure of either step is logged and re-raised
\* as it is, and the run returns normally only when both steps succeeded.
C10_ImportAfterCreate ==
    /\ n_import > 0 => corpus # NoCorpus /\ n_create >= 1 /\ import_target = corpus.name
    /\ corpus = NoCorpus => n_import = 0 /\ import_target = <<>>
    /\ (pc = "p_done" /\ status = "raised") =>
         logged = error /\ error = last_exc /\ error \in RemoteErrors
    /\ (pc = "p_done" /\ last_exc # NoError) => status = "raised"
    /\ (pc = "p_done" /\ status = "returned") =>
         n_create >= 1 /\ n_import >= 1 /\ summary \in ImportSummaries /\ logged = NoError

C10_Witness ==
    /\ pc = "p_done" /\ status = "raised" /\ n_create = 1 /\ n_import = 1
    /\ corpus.name \in ResourceNames /\ import_target = corpus.name
    /\ logged \in RemoteErrors /\ summary = NoSummary

====
